---- MODULE Spec2Model ----
(***************************************************************************)
(* Model of src/main.rs: the ssh-config codec (HostEntry::parse_ssh_config *)
(* and HostEntry::write_ssh_config) and the key-event loop of main() over  *)
(* AppState.  Strings are sequences of one-character strings, Option<T> is *)
(* <<>> (None) or <<x>> (Some(x)), indices are zero-based as in the source *)
(* (hosts[i] of the source is hosts[i + 1] here).                          *)
(***************************************************************************)
EXTENDS Integers, Sequences, FiniteSets, TLC

VARIABLES
    hosts,          \* app.hosts: Vec<HostEntry>
    selected,       \* app.selected: usize
    last_key,       \* app.last_key: Option<KeyCode>
    last_key_time,  \* app.last_key_time: Option<Instant>
    edit_mode,      \* app.edit_mode: Option<EditState>
    status_message, \* app.status_message: Option<String>
    file,           \* content of the file at ssh_config_path(): None when unreadable
    run,            \* where main() is: "running", "quit", "launched", "panicked"
    now,            \* Instant::now() of the last key event read
    key_code,       \* key.code of the last key event read (None before the first)
    spawned,        \* external commands started by the last admitted key's handler
    writes,         \* write_ssh_config calls made by the last admitted key's handler
    target,         \* history: which Browsing key opened the current edit ("none" in Browsing)
    typed,          \* history: the Char and Backspace keys the current edit applied to field 0
    codec_pc,       \* codec harness: "off", "input", "serialized", "parsed"
    codec_in,       \* codec harness: the Vec<HostEntry> given to the serializer
    codec_text,     \* codec harness: the text the serializer produced
    codec_out       \* codec harness: what parse_ssh_config made of codec_text

vars == <<hosts, selected, last_key, last_key_time, edit_mode, status_message,
          file, run, now, key_code, spawned, writes, target, typed,
          codec_pc, codec_in, codec_text, codec_out>>

appVars == <<hosts, selected, last_key, last_key_time, edit_mode, status_message,
             file, run, spawned, writes, target, typed>>

codecVars == <<codec_pc, codec_in, codec_text, codec_out>>

loopVars == <<now, key_code>>

----------------------------------------------------------------------------
(* Option<T> *)

None == <<>>

Some(x) == <<x>>

----------------------------------------------------------------------------
(* Text primitives of the Rust standard library used by the codec. *)

IsWhitespace(c) == c \in {" ", "\n", "\t", "\r"}

RECURSIVE TrimStart(_)
TrimStart(s) ==
    IF s = <<>> THEN <<>>
    ELSE IF IsWhitespace(Head(s)) THEN TrimStart(Tail(s))
    ELSE s

RECURSIVE TrimEnd(_)
TrimEnd(s) ==
    IF s = <<>> THEN <<>>
    ELSE IF IsWhitespace(s[Len(s)]) THEN TrimEnd(SubSeq(s, 1, Len(s) - 1))
    ELSE s

Trim(s) == TrimEnd(TrimStart(s))

StartsWith(s, p) == Len(s) >= Len(p) /\ SubSeq(s, 1, Len(p)) = p

\* str::strip_prefix: Some(rest) when s starts with p, None otherwise
StripPrefix(s, p) ==
    IF StartsWith(s, p) THEN Some(SubSeq(s, Len(p) + 1, Len(s))) ELSE None

\* position of the first "\n" in s, 0 when there is none
RECURSIVE FirstNewline(_, _)
FirstNewline(s, i) ==
    IF i > Len(s) THEN 0
    ELSE IF s[i] = "\n" THEN i
    ELSE FirstNewline(s, i + 1)

\* a line without its terminator: str::lines also drops a "\r" before the "\n"
StripCr(l) ==
    IF l # <<>> /\ l[Len(l)] = "\r" THEN SubSeq(l, 1, Len(l) - 1) ELSE l

\* str::lines: split at "\n"; a final empty piece after the last "\n" is no line
RECURSIVE Lines(_)
Lines(text) ==
    IF text = <<>> THEN <<>>
    ELSE LET i == FirstNewline(text, 1) IN
         IF i = 0 THEN <<text>>
         ELSE <<StripCr(SubSeq(text, 1, i - 1))>> \o Lines(SubSeq(text, i + 1, Len(text)))

----------------------------------------------------------------------------
(* HostEntry and the codec *)

KwHost == <<"H", "o", "s", "t">>

KwHostSpace == KwHost \o <<" ">>

KwHostName == <<"H", "o", "s", "t", "N", "a", "m", "e">>

KwUser == <<"U", "s", "e", "r">>

KwPort == <<"P", "o", "r", "t">>

KwIdentityFile == <<"I", "d", "e", "n", "t", "i", "t", "y", "F", "i", "l", "e">>

KwPassword == <<"P", "a", "s", "s", "w", "o", "r", "d">>

KwHashPassword == <<"#", " ">> \o KwPassword

Indent == <<" ", " ", " ", " ">>

HostEntry(name, hostname, user, port, identity_file, password) ==
    [name |-> name, hostname |-> hostname, user |-> user, port |-> port,
     identity_file |-> identity_file, password |-> password]

\* the entry a "Host" line starts, and the entry the 'n' key starts
BareHost(name) == HostEntry(name, None, None, None, None, None)

ParseLine_KeepFields(st, line) ==
    LET trimmed == Trim(line) IN
    IF StartsWith(trimmed, KwHostSpace)
    THEN [hosts   |-> IF st.current # None THEN Append(st.hosts, st.current[1])
                      ELSE st.hosts,
          current |-> Some([(IF st.current # None THEN st.current[1]
                             ELSE BareHost(<<>>))
                            EXCEPT !.name = Trim(StripPrefix(trimmed, KwHost)[1])])]
    ELSE IF st.current # None
    THEN LET entry == st.current[1] IN
         [hosts   |-> st.hosts,
          current |->
             Some(IF StripPrefix(trimmed, KwHostName) # None
                  THEN [entry EXCEPT !.hostname =
                            Some(Trim(StripPrefix(trimmed, KwHostName)[1]))]
                  ELSE IF StripPrefix(trimmed, KwUser) # None
                  THEN [entry EXCEPT !.user =
                            Some(Trim(StripPrefix(trimmed, KwUser)[1]))]
                  ELSE IF StripPrefix(trimmed, KwPort) # None
                  THEN [entry EXCEPT !.port =
                            Some(Trim(StripPrefix(trimmed, KwPort)[1]))]
                  ELSE IF StripPrefix(trimmed, KwIdentityFile) # None
                  THEN [entry EXCEPT !.identity_file =
                            Some(Trim(StripPrefix(trimmed, KwIdentityFile)[1]))]
                  ELSE IF StripPrefix(trimmed, KwPassword) # None
                  THEN [entry EXCEPT !.password =
                            Some(Trim(StripPrefix(trimmed, KwPassword)[1]))]
                  ELSE IF StripPrefix(trimmed, KwHashPassword) # None
                  THEN [entry EXCEPT !.password =
                            Some(Trim(StripPrefix(trimmed, KwHashPassword)[1]))]
                  ELSE entry)]
    ELSE st

\* body of the `for line in file.lines()` loop; st = [hosts, current]
ParseLine(st, line) ==
    LET trimmed == Trim(line) IN
    IF StartsWith(trimmed, KwHostSpace)
    THEN [hosts   |-> IF st.current # None THEN Append(st.hosts, st.current[1])
                      ELSE st.hosts,
          current |-> Some(BareHost(Trim(StripPrefix(trimmed, KwHost)[1])))]
    ELSE IF st.current # None
    THEN LET entry == st.current[1] IN
         [hosts   |-> st.hosts,
          current |->
             Some(IF StripPrefix(trimmed, KwHostName) # None
                  THEN [entry EXCEPT !.hostname =
                            Some(Trim(StripPrefix(trimmed, KwHostName)[1]))]
                  ELSE IF StripPrefix(trimmed, KwUser) # None
                  THEN [entry EXCEPT !.user =
                            Some(Trim(StripPrefix(trimmed, KwUser)[1]))]
                  ELSE IF StripPrefix(trimmed, KwPort) # None
                  THEN [entry EXCEPT !.port =
                            Some(Trim(StripPrefix(trimmed, KwPort)[1]))]
                  ELSE IF StripPrefix(trimmed, KwIdentityFile) # None
                  THEN [entry EXCEPT !.identity_file =
                            Some(Trim(StripPrefix(trimmed, KwIdentityFile)[1]))]
                  ELSE IF StripPrefix(trimmed, KwPassword) # None
                  THEN [entry EXCEPT !.password =
                            Some(Trim(StripPrefix(trimmed, KwPassword)[1]))]
                  ELSE IF StripPrefix(trimmed, KwHashPassword) # None
                  THEN [entry EXCEPT !.password =
                            Some(Trim(StripPrefix(trimmed, KwHashPassword)[1]))]
                  ELSE entry)]
    ELSE st

RECURSIVE ParseLines(_, _)
ParseLines(st, lines) ==
    IF lines = <<>> THEN st
    ELSE ParseLines(ParseLine(st, Head(lines)), Tail(lines))

ParseFlush_Skip(st) == st.hosts

\* the flush after the loop
ParseFlush(st) ==
    IF st.current # None THEN Append(st.hosts, st.current[1]) ELSE st.hosts

parse_ssh_config(text) ==
    ParseFlush(ParseLines([hosts |-> <<>>, current |-> None], Lines(text)))

\* one optional field line of write_ssh_config: nothing for None
FieldLine(kw, opt) ==
    IF opt # None THEN Indent \o kw \o <<" ">> \o opt[1] \o <<"\n">> ELSE <<>>

\* what write_ssh_config pushes to `out` for one host
HostText(host) ==
    KwHostSpace \o host.name \o <<"\n">>
    \o FieldLine(KwHostName, host.hostname)
    \o FieldLine(KwUser, host.user)
    \o FieldLine(KwPort, host.port)
    \o FieldLine(KwIdentityFile, host.identity_file)
    \o FieldLine(KwHashPassword, host.password)
    \o <<"\n">>

\* the string `out` that write_ssh_config hands to fs::write
RECURSIVE write_ssh_config_out(_)
write_ssh_config_out(hs) ==
    IF hs = <<>> THEN <<>>
    ELSE HostText(Head(hs)) \o write_ssh_config_out(Tail(hs))

\* load_config_file().unwrap_or_default(): no hosts when the file cannot be read
load_config_file(f) == IF f = None THEN <<>> ELSE parse_ssh_config(f[1])

----------------------------------------------------------------------------
(* Bounds and program constants *)

\* the debounce window of the `allow` computation, in milliseconds
DebounceMs == 50

\* the key loop is explored up to this time on the clock, in milliseconds
MaxClock == 125

\* time between two key events, in milliseconds: inside, at and beyond the window
Delays == {25, 50, 75}

\* at most this many of the icacls invocations do not succeed in one run
MaxFaults == 2

\* number of editable fields (the `% 6` of the Tab handler)
FieldCount == 6

----------------------------------------------------------------------------
(* Key events *)

Key(code) == [code |-> code, c |-> ""]

CharKey(c) == [code |-> "Char", c |-> c]

\* the characters the model types
Chars == {"q", "e", "n", "k", "d", "b", "1"}

\* the key codes the model sends; F1 stands for every code no arm matches
Keys ==
    {Key("Esc"), Key("Enter"), Key("Tab"), Key("Down"), Key("Up"),
     Key("Backspace"), Key("F1")} \cup {CharKey(c) : c \in Chars}

Allow_NoDebounce(k, t) == TRUE

\* the `allow` computation: false for a repeat of the last admitted key
\* that arrives less than the window after it
Allow(k, t) ==
    ~(/\ last_key # None
      /\ last_key_time # None
      /\ last_key[1] = k
      /\ t - last_key_time[1] < DebounceMs)

----------------------------------------------------------------------------
(* The edit buffer *)

FieldOf(idx) ==
    CASE idx = 1 -> "hostname"
      [] idx = 2 -> "user"
      [] idx = 3 -> "port"
      [] idx = 4 -> "identity_file"
      [] idx = 5 -> "password"

\* the host after get_edit_field_mut(host, idx): an absent field becomes Some("")
get_edit_field_mut(host, idx) ==
    IF idx \in 1..5 /\ host[FieldOf(idx)] = None
    THEN [host EXCEPT ![FieldOf(idx)] = Some(<<>>)]
    ELSE host

\* whether get_edit_field_mut returns Some(reference)
HasField(idx) == idx \in 0..5

FieldValue(host, idx) == IF idx = 0 THEN host.name ELSE host[FieldOf(idx)][1]

SetField(host, idx, val) ==
    IF idx = 0 THEN [host EXCEPT !.name = val]
    ELSE [host EXCEPT ![FieldOf(idx)] = Some(val)]

\* String::pop: removes the last character, nothing on the empty string
Pop(val) == IF val = <<>> THEN <<>> ELSE SubSeq(val, 1, Len(val) - 1)

\* the Backspace arm applied to the buffer
BackspaceField(host, idx) ==
    LET h == get_edit_field_mut(host, idx) IN
    IF HasField(idx) THEN SetField(h, idx, Pop(FieldValue(h, idx))) ELSE h

PushField_Replace(host, idx, c) ==
    LET h == get_edit_field_mut(host, idx) IN
    IF HasField(idx) THEN SetField(h, idx, <<c>>) ELSE h

\* the Char(c) arm applied to the buffer
PushField(host, idx, c) ==
    LET h == get_edit_field_mut(host, idx) IN
    IF HasField(idx) THEN SetField(h, idx, Append(FieldValue(h, idx), c)) ELSE h

EditState(host, field_index) == [host |-> host, field_index |-> field_index]

\* the Tab | Down arm
NextFieldIndex(i) == (i + 1) % FieldCount

\* the Up arm
PrevFieldIndex(i) == IF i = 0 THEN 5 ELSE i - 1

\* app.hosts after the Enter arm of edit mode
SavedHosts_AlwaysAppend(hs, sel, host) == Append(hs, host)

SavedHosts(hs, sel, host) ==
    IF sel < Len(hs) THEN [hs EXCEPT ![sel + 1] = host] ELSE Append(hs, host)

\* app.selected after the Enter arm of edit mode
SavedSelected(hs, sel) == IF sel < Len(hs) THEN sel ELSE (Len(hs) + 1) - 1

----------------------------------------------------------------------------
(* Browsing: selection *)

DownSelected_NoWrap(hs, sel) == IF hs # <<>> THEN sel + 1 ELSE sel

DownSelected(hs, sel) == IF hs # <<>> THEN (sel + 1) % Len(hs) ELSE sel

UpSelected_NoWrap(hs, sel) ==
    IF hs # <<>> THEN (IF sel = 0 THEN 0 ELSE sel - 1) ELSE sel

UpSelected(hs, sel) ==
    IF hs # <<>> THEN (IF sel = 0 THEN Len(hs) - 1 ELSE sel - 1) ELSE sel

----------------------------------------------------------------------------
(* Browsing: the 'k' arm, the icacls sequence *)

GrantArg == "USERNAME:R"

Cmds ==
    << <<"/reset">>,
       <<"/inheritance:r">>,
       <<"/remove", "NT AUTHORITY\\Authenticated Users">>,
       <<"/remove", "BUILTIN\\Users">>,
       <<"/remove", "Everyone">>,
       <<"/grant:r", GrantArg>> >>

\* what Command::output() can give for one invocation: Ok with a success
\* status, Ok with a non-success status, or Err (icacls could not be started)
Outcomes == {"success", "failure", "error"}

\* the answers of the operating system to the six invocations, were all made
Responses ==
    {r \in [1..Len(Cmds) -> Outcomes] :
        Cardinality({i \in 1..Len(Cmds) : r[i] # "success"}) <= MaxFaults}

\* an external command: program, the path or host it is given, further
\* arguments, and how the operating system answered
Command(prog, arg, args, outcome) ==
    [prog |-> prog, arg |-> arg, args |-> args, outcome |-> outcome]

\* the block pushed to full_output for an invocation that ran: the
\* "> icacls args" line with the captured stdout and stderr
Captured(args, outcome) == [args |-> args, status |-> outcome]

RECURSIVE IcaclsLoop_NoBreak(_, _, _, _)
IcaclsLoop_NoBreak(i, path, resp, acc) ==
    IF i > Len(Cmds) THEN acc
    ELSE LET ran == Append(acc.ran, Command("icacls", path, Cmds[i], resp[i])) IN
         IF resp[i] = "error"
         THEN [ran |-> ran, full_output |-> acc.full_output,
               failed |-> Some([ok |-> FALSE, what |-> "Failed to run icacls",
                                subject |-> Cmds[i],
                                full_output |-> acc.full_output])]
         ELSE LET out == Append(acc.full_output, Captured(Cmds[i], resp[i])) IN
              IcaclsLoop_NoBreak(i + 1, path, resp,
                  [ran |-> ran, full_output |-> out,
                   failed |-> IF resp[i] = "failure" /\ acc.failed = None
                              THEN Some([ok |-> FALSE,
                                         what |-> "icacls failed with code",
                                         subject |-> Cmds[i], full_output |-> out])
                              ELSE acc.failed])

\* the `for args in cmds` loop from command i on; acc = [ran, full_output, failed]
RECURSIVE IcaclsLoop(_, _, _, _)
IcaclsLoop(i, path, resp, acc) ==
    IF i > Len(Cmds) THEN acc
    ELSE LET ran == Append(acc.ran, Command("icacls", path, Cmds[i], resp[i])) IN
         IF resp[i] = "error"
         THEN [ran |-> ran, full_output |-> acc.full_output,
               failed |-> Some([ok |-> FALSE, what |-> "Failed to run icacls",
                                subject |-> Cmds[i],
                                full_output |-> acc.full_output])]
         ELSE LET out == Append(acc.full_output, Captured(Cmds[i], resp[i])) IN
              IF resp[i] = "failure"
              THEN [ran |-> ran, full_output |-> out,
                    failed |-> Some([ok |-> FALSE, what |-> "icacls failed with code",
                                     subject |-> Cmds[i], full_output |-> out])]
              ELSE IcaclsLoop(i + 1, path, resp,
                              [ran |-> ran, full_output |-> out, failed |-> None])

FixPermissions(path, resp) ==
    IcaclsLoop(1, path, resp, [ran |-> <<>>, full_output |-> <<>>, failed |-> None])

FixMessage_AlwaysFixed(path, res) ==
    [ok |-> TRUE, what |-> "Permissions fixed for", subject |-> path,
     full_output |-> res.full_output]

\* the value assigned to app.status_message after the loop
FixMessage(path, res) ==
    IF res.failed # None THEN res.failed[1]
    ELSE [ok |-> TRUE, what |-> "Permissions fixed for", subject |-> path,
          full_output |-> res.full_output]

----------------------------------------------------------------------------
(* The session: AppState::new over the loaded file, then the key loop *)

ConfigOneHost ==
    KwHostSpace \o <<"a", "\n">>
    \o Indent \o KwIdentityFile \o <<" ", "k", "\n">>
    \o <<"\n">>

ConfigTwoHosts ==
    KwHostSpace \o <<"a", "\n">>
    \o Indent \o KwHostName \o <<" ", "h", "\n">>
    \o Indent \o <<"P", "r", "o", "x", "y", "J", "u", "m", "p", " ", "j", "\n">>
    \o <<"\n">>
    \o KwHostSpace \o <<"b", "\n">>
    \o Indent \o KwIdentityFile \o <<" ", "k", "\n">>
    \o <<"\n">>

\* the config file at startup: unreadable, one host, two hosts
InitialFiles == {None, Some(ConfigOneHost), Some(ConfigTwoHosts)}

CodecOff ==
    /\ codec_pc = "off"
    /\ codec_in = <<>>
    /\ codec_text = <<>>
    /\ codec_out = <<>>

Init ==
    /\ file \in InitialFiles
    /\ hosts = load_config_file(file)
    /\ selected = 0
    /\ last_key = None
    /\ last_key_time = None
    /\ edit_mode = None
    /\ status_message = None
    /\ run = "running"
    /\ now = 0
    /\ key_code = None
    /\ spawned = <<>>
    /\ writes = <<>>
    /\ target = "none"
    /\ typed = <<>>
    /\ CodecOff

\* event::read() returns key k, d milliseconds after the previous event
ReadKey(k, d) ==
    /\ run = "running"
    /\ now + d <= MaxClock
    /\ now' = now + d
    /\ key_code' = Some(k)

\* the end of the `if allow` block
Admitted(k) ==
    /\ last_key' = Some(k)
    /\ last_key_time' = Some(now')

AfterWrite_Propagate(ok) == IF ok THEN "running" ELSE "failed"

\* main() after `let _ = HostEntry::write_ssh_config(..)`: the result is dropped
AfterWrite(ok) == "running"

\* fs::write: the new content on success; on failure the file is as it
\* was (not opened) or empty (truncated, then the write failed)
FileAfterWrite(f, out, ok) == IF ok THEN {Some(out)} ELSE {f, Some(<<>>)}

DropKey_Rebase(k, d) ==
    /\ ReadKey(k, d)
    /\ ~Allow(k, now + d)
    /\ last_key_time' = Some(now')
    /\ UNCHANGED <<hosts, selected, last_key, edit_mode, status_message, file,
                   run, spawned, writes, target, typed>>
    /\ UNCHANGED codecVars

\* a key that `allow` rejects: nothing but the loop's locals changes
DropKey(k, d) ==
    /\ ReadKey(k, d)
    /\ ~Allow(k, now + d)
    /\ UNCHANGED appVars
    /\ UNCHANGED codecVars

EditEsc(d) ==
    /\ ReadKey(Key("Esc"), d)
    /\ Allow(Key("Esc"), now + d)
    /\ edit_mode # None
    /\ edit_mode' = None
    /\ target' = "none"
    /\ spawned' = <<>>
    /\ writes' = <<>>
    /\ Admitted(Key("Esc"))
    /\ UNCHANGED <<hosts, selected, status_message, file, run>>
    /\ UNCHANGED codecVars
    /\ typed' = <<>>

EditEnter_WriteBefore(d) ==
    /\ ReadKey(Key("Enter"), d)
    /\ Allow(Key("Enter"), now + d)
    /\ edit_mode # None
    /\ LET hs  == SavedHosts(hosts, selected, edit_mode[1].host)
           out == write_ssh_config_out(hosts)
       IN  \E ok \in BOOLEAN :
              /\ hosts' = hs
              /\ selected' = SavedSelected(hosts, selected)
              /\ writes' = <<[text |-> out, ok |-> ok]>>
              /\ file' \in FileAfterWrite(file, out, ok)
              /\ run' = AfterWrite(ok)
    /\ edit_mode' = None
    /\ target' = "none"
    /\ spawned' = <<>>
    /\ Admitted(Key("Enter"))
    /\ UNCHANGED status_message
    /\ UNCHANGED codecVars
    /\ typed' = <<>>

EditEnter(d) ==
    /\ ReadKey(Key("Enter"), d)
    /\ Allow(Key("Enter"), now + d)
    /\ edit_mode # None
    /\ LET hs  == SavedHosts(hosts, selected, edit_mode[1].host)
           out == write_ssh_config_out(hs)
       IN  \E ok \in BOOLEAN :
              /\ hosts' = hs
              /\ selected' = SavedSelected(hosts, selected)
              /\ writes' = <<[text |-> out, ok |-> ok]>>
              /\ file' \in FileAfterWrite(file, out, ok)
              /\ run' = AfterWrite(ok)
    /\ edit_mode' = None
    /\ target' = "none"
    /\ spawned' = <<>>
    /\ Admitted(Key("Enter"))
    /\ UNCHANGED status_message
    /\ UNCHANGED codecVars
    /\ typed' = <<>>

EditNextField(k, d) ==
    /\ k \in {Key("Tab"), Key("Down")}
    /\ ReadKey(k, d)
    /\ Allow(k, now + d)
    /\ edit_mode # None
    /\ edit_mode' = Some(EditState(edit_mode[1].host,
                                   NextFieldIndex(edit_mode[1].field_index)))
    /\ spawned' = <<>>
    /\ writes' = <<>>
    /\ Admitted(k)
    /\ UNCHANGED <<hosts, selected, status_message, file, run, target>>
    /\ UNCHANGED codecVars
    /\ UNCHANGED typed

EditPrevField(d) ==
    /\ ReadKey(Key("Up"), d)
    /\ Allow(Key("Up"), now + d)
    /\ edit_mode # None
    /\ edit_mode' = Some(EditState(edit_mode[1].host,
                                   PrevFieldIndex(edit_mode[1].field_index)))
    /\ spawned' = <<>>
    /\ writes' = <<>>
    /\ Admitted(Key("Up"))
    /\ UNCHANGED <<hosts, selected, status_message, file, run, target>>
    /\ UNCHANGED codecVars
    /\ UNCHANGED typed

EditBackspace(d) ==
    /\ ReadKey(Key("Backspace"), d)
    /\ Allow(Key("Backspace"), now + d)
    /\ edit_mode # None
    /\ edit_mode' = Some(EditState(BackspaceField(edit_mode[1].host,
                                                  edit_mode[1].field_index),
                                   edit_mode[1].field_index))
    /\ spawned' = <<>>
    /\ writes' = <<>>
    /\ Admitted(Key("Backspace"))
    /\ UNCHANGED <<hosts, selected, status_message, file, run, target>>
    /\ UNCHANGED codecVars
    /\ typed' = IF edit_mode[1].field_index = 0 THEN Append(typed, Key("Backspace")) ELSE typed

EditChar_WriteThrough(c, d) ==
    /\ ReadKey(CharKey(c), d)
    /\ Allow(CharKey(c), now + d)
    /\ edit_mode # None
    /\ edit_mode' = Some(EditState(PushField(edit_mode[1].host,
                                             edit_mode[1].field_index, c),
                                   edit_mode[1].field_index))
    /\ hosts' = SavedHosts(hosts, selected, edit_mode'[1].host)
    /\ spawned' = <<>>
    /\ writes' = <<>>
    /\ Admitted(CharKey(c))
    /\ UNCHANGED <<selected, status_message, file, run, target>>
    /\ UNCHANGED codecVars
    /\ typed' = IF edit_mode[1].field_index = 0 THEN Append(typed, CharKey(c)) ELSE typed

EditChar_Commands(c, d) ==
    /\ ReadKey(CharKey(c), d)
    /\ Allow(CharKey(c), now + d)
    /\ edit_mode # None
    /\ IF c = "q"
       THEN /\ run' = "quit"
            /\ UNCHANGED <<edit_mode, typed, last_key, last_key_time>>
       ELSE /\ edit_mode' = Some(EditState(PushField(edit_mode[1].host,
                                                     edit_mode[1].field_index, c),
                                           edit_mode[1].field_index))
            /\ typed' = IF edit_mode[1].field_index = 0
                        THEN Append(typed, CharKey(c)) ELSE typed
            /\ Admitted(CharKey(c))
            /\ UNCHANGED run
    /\ spawned' = <<>>
    /\ writes' = <<>>
    /\ UNCHANGED <<hosts, selected, status_message, file, target>>
    /\ UNCHANGED codecVars

EditChar(c, d) ==
    /\ ReadKey(CharKey(c), d)
    /\ Allow(CharKey(c), now + d)
    /\ edit_mode # None
    /\ edit_mode' = Some(EditState(PushField(edit_mode[1].host,
                                             edit_mode[1].field_index, c),
                                   edit_mode[1].field_index))
    /\ spawned' = <<>>
    /\ writes' = <<>>
    /\ Admitted(CharKey(c))
    /\ UNCHANGED <<hosts, selected, status_message, file, run, target>>
    /\ UNCHANGED codecVars
    /\ typed' = IF edit_mode[1].field_index = 0 THEN Append(typed, CharKey(c)) ELSE typed

\* the `_ => {}` arm of edit mode
EditOther(k, d) ==
    /\ k \notin {Key("Esc"), Key("Enter"), Key("Tab"), Key("Down"), Key("Up"),
                 Key("Backspace")}
    /\ k.code # "Char"
    /\ ReadKey(k, d)
    /\ Allow(k, now + d)
    /\ edit_mode # None
    /\ spawned' = <<>>
    /\ writes' = <<>>
    /\ Admitted(k)
    /\ UNCHANGED <<hosts, selected, status_message, file, run, target, edit_mode>>
    /\ UNCHANGED codecVars
    /\ UNCHANGED typed

RunAfterLaunch_StayOnFailure(outcome) ==
    IF outcome = "success" THEN "launched" ELSE "running"

\* main() after Command::new("ssh")..status(): `return Ok(())` whatever the
\* exit status, a panic in expect() when ssh could not be started
RunAfterLaunch(outcome) == IF outcome = "error" THEN "panicked" ELSE "launched"

\* Enter outside edit mode: ssh is run and main() returns (or panics in
\* expect() when ssh cannot be started) before last_key is updated
BrowseEnter(d) ==
    /\ ReadKey(Key("Enter"), d)
    /\ Allow(Key("Enter"), now + d)
    /\ edit_mode = None
    /\ writes' = <<>>
    /\ IF hosts # <<>>
       THEN IF selected < Len(hosts)
            THEN \E outcome \in Outcomes :
                    /\ spawned' = <<Command("ssh", hosts[selected + 1].name, <<>>, outcome)>>
                    /\ run' = RunAfterLaunch(outcome)
                    /\ UNCHANGED <<last_key, last_key_time>>
            ELSE /\ run' = "panicked"
                 /\ spawned' = <<>>
                 /\ UNCHANGED <<last_key, last_key_time>>
       ELSE /\ spawned' = <<>>
            /\ Admitted(Key("Enter"))
            /\ UNCHANGED run
    /\ UNCHANGED <<hosts, selected, status_message, file, edit_mode, target>>
    /\ UNCHANGED codecVars
    /\ UNCHANGED typed

\* 'q' outside edit mode: `break`, before last_key is updated
BrowseQuit(d) ==
    /\ ReadKey(CharKey("q"), d)
    /\ Allow(CharKey("q"), now + d)
    /\ edit_mode = None
    /\ run' = "quit"
    /\ spawned' = <<>>
    /\ writes' = <<>>
    /\ UNCHANGED <<hosts, selected, status_message, file, edit_mode, target,
                   last_key, last_key_time>>
    /\ UNCHANGED codecVars
    /\ UNCHANGED typed

\* BrowseEdit without the is_empty() test of line 346: hosts[selected] is
\* indexed whatever the store holds
BrowseEdit_NoEmptyCheck(d) ==
    /\ ReadKey(CharKey("e"), d)
    /\ Allow(CharKey("e"), now + d)
    /\ edit_mode = None
    /\ spawned' = <<>>
    /\ writes' = <<>>
    /\ IF selected < Len(hosts)
       THEN /\ edit_mode' = Some(EditState(hosts[selected + 1], 0))
            /\ target' = "existing"
            /\ Admitted(CharKey("e"))
            /\ UNCHANGED run
       ELSE /\ run' = "panicked"
            /\ UNCHANGED <<edit_mode, target, last_key, last_key_time>>
    /\ UNCHANGED <<hosts, selected, status_message, file>>
    /\ UNCHANGED codecVars
    /\ typed' = <<>>

BrowseEdit(d) ==
    /\ ReadKey(CharKey("e"), d)
    /\ Allow(CharKey("e"), now + d)
    /\ edit_mode = None
    /\ spawned' = <<>>
    /\ writes' = <<>>
    /\ IF hosts # <<>>
       THEN IF selected < Len(hosts)
            THEN /\ edit_mode' = Some(EditState(hosts[selected + 1], 0))
                 /\ target' = "existing"
                 /\ Admitted(CharKey("e"))
                 /\ UNCHANGED run
            ELSE /\ run' = "panicked"
                 /\ UNCHANGED <<edit_mode, target, last_key, last_key_time>>
       ELSE /\ Admitted(CharKey("e"))
            /\ UNCHANGED <<edit_mode, target, run>>
    /\ UNCHANGED <<hosts, selected, status_message, file>>
    /\ UNCHANGED codecVars
    /\ typed' = <<>>

NewHostName == <<"n", "e", "w", "-", "h", "o", "s", "t">>

BrowseNew(d) ==
    /\ ReadKey(CharKey("n"), d)
    /\ Allow(CharKey("n"), now + d)
    /\ edit_mode = None
    /\ edit_mode' = Some(EditState(BareHost(NewHostName), 0))
    /\ target' = "new"
    /\ spawned' = <<>>
    /\ writes' = <<>>
    /\ Admitted(CharKey("n"))
    /\ UNCHANGED <<hosts, selected, status_message, file, run>>
    /\ UNCHANGED codecVars
    /\ typed' = <<>>

BrowseFixPermissions(d) ==
    /\ ReadKey(CharKey("k"), d)
    /\ Allow(CharKey("k"), now + d)
    /\ edit_mode = None
    /\ writes' = <<>>
    /\ IF hosts # <<>>
       THEN IF selected < Len(hosts)
            THEN /\ IF hosts[selected + 1].identity_file # None
                    THEN \E resp \in Responses :
                            LET path == hosts[selected + 1].identity_file[1]
                                res  == FixPermissions(path, resp)
                            IN  /\ spawned' = res.ran
                                /\ status_message' = Some(FixMessage(path, res))
                    ELSE /\ spawned' = <<>>
                         /\ UNCHANGED status_message
                 /\ Admitted(CharKey("k"))
                 /\ UNCHANGED run
            ELSE /\ run' = "panicked"
                 /\ spawned' = <<>>
                 /\ UNCHANGED <<status_message, last_key, last_key_time>>
       ELSE /\ spawned' = <<>>
            /\ Admitted(CharKey("k"))
            /\ UNCHANGED <<status_message, run>>
    /\ UNCHANGED <<hosts, selected, file, edit_mode, target>>
    /\ UNCHANGED codecVars
    /\ UNCHANGED typed

BrowseDown(d) ==
    /\ ReadKey(Key("Down"), d)
    /\ Allow(Key("Down"), now + d)
    /\ edit_mode = None
    /\ selected' = DownSelected(hosts, selected)
    /\ spawned' = <<>>
    /\ writes' = <<>>
    /\ Admitted(Key("Down"))
    /\ UNCHANGED <<hosts, status_message, file, run, edit_mode, target>>
    /\ UNCHANGED codecVars
    /\ UNCHANGED typed

BrowseUp(d) ==
    /\ ReadKey(Key("Up"), d)
    /\ Allow(Key("Up"), now + d)
    /\ edit_mode = None
    /\ selected' = UpSelected(hosts, selected)
    /\ spawned' = <<>>
    /\ writes' = <<>>
    /\ Admitted(Key("Up"))
    /\ UNCHANGED <<hosts, status_message, file, run, edit_mode, target>>
    /\ UNCHANGED codecVars
    /\ UNCHANGED typed

\* the `_ => {}` arm outside edit mode
BrowseOther(k, d) ==
    /\ k \notin {Key("Enter"), Key("Down"), Key("Up"),
                 CharKey("q"), CharKey("e"), CharKey("n"), CharKey("k")}
    /\ ReadKey(k, d)
    /\ Allow(k, now + d)
    /\ edit_mode = None
    /\ spawned' = <<>>
    /\ writes' = <<>>
    /\ Admitted(k)
    /\ UNCHANGED <<hosts, selected, status_message, file, run, edit_mode, target>>
    /\ UNCHANGED codecVars
    /\ UNCHANGED typed

Next ==
    \/ \E k \in Keys, d \in Delays : DropKey(k, d)
    \/ \E d \in Delays : EditEsc(d)
    \/ \E d \in Delays : EditEnter(d)
    \/ \E k \in Keys, d \in Delays : EditNextField(k, d)
    \/ \E d \in Delays : EditPrevField(d)
    \/ \E d \in Delays : EditBackspace(d)
    \/ \E c \in Chars, d \in Delays : EditChar(c, d)
    \/ \E k \in Keys, d \in Delays : EditOther(k, d)
    \/ \E d \in Delays : BrowseEnter(d)
    \/ \E d \in Delays : BrowseQuit(d)
    \/ \E d \in Delays : BrowseEdit(d)
    \/ \E d \in Delays : BrowseNew(d)
    \/ \E d \in Delays : BrowseFixPermissions(d)
    \/ \E d \in Delays : BrowseDown(d)
    \/ \E d \in Delays : BrowseUp(d)
    \/ \E k \in Keys, d \in Delays : BrowseOther(k, d)

Spec == Init /\ [][Next]_vars

----------------------------------------------------------------------------
(* The codec on its own: write_ssh_config's text given back to              *)
(* parse_ssh_config, for host lists drawn from bounded sets.                *)

\* characters of the names and values given to the codec
CodecChars == {"x", " ", "\n"}

\* longest name or value given to the codec
MaxValLen == 2

OptionalFields == {"hostname", "user", "port", "identity_file", "password"}

CodecStrings == UNION {[1..l -> CodecChars] : l \in 1..MaxValLen}

\* the host under test: any name, and no optional field or any one of them set
HostsUnderTest ==
    LET bare == {BareHost(n) : n \in CodecStrings} IN
    bare \cup {[h EXCEPT ![f] = Some(v)] :
                  h \in bare, f \in OptionalFields, v \in CodecStrings}

\* the hosts placed around the host under test: none or all optional fields set
Neighbours ==
    {BareHost(<<"y">>),
     HostEntry(<<"z">>, Some(<<"h">>), Some(<<"u">>), Some(<<"2", "2">>),
               Some(<<"k">>), Some(<<"p", " ", "w">>))}

\* what stands before, and after, the host under test: nothing or one neighbour
Contexts == {<<>>} \cup {<<n>> : n \in Neighbours}

CodecInputs ==
    {<<>>} \cup {pre \o <<h>> \o post :
                    pre \in Contexts, h \in HostsUnderTest,
                    post \in Contexts}

InitCodec ==
    /\ file = None
    /\ hosts = <<>>
    /\ selected = 0
    /\ last_key = None
    /\ last_key_time = None
    /\ edit_mode = None
    /\ status_message = None
    /\ run = "running"
    /\ now = 0
    /\ key_code = None
    /\ spawned = <<>>
    /\ writes = <<>>
    /\ target = "none"
    /\ typed = <<>>
    /\ codec_pc = "input"
    /\ codec_in \in CodecInputs
    /\ codec_text = <<>>
    /\ codec_out = <<>>

CodecSerialize ==
    /\ codec_pc = "input"
    /\ codec_text' = write_ssh_config_out(codec_in)
    /\ codec_pc' = "serialized"
    /\ UNCHANGED <<codec_in, codec_out>>
    /\ UNCHANGED appVars
    /\ UNCHANGED loopVars

CodecParse ==
    /\ codec_pc = "serialized"
    /\ codec_out' = parse_ssh_config(codec_text)
    /\ codec_pc' = "parsed"
    /\ UNCHANGED <<codec_in, codec_text>>
    /\ UNCHANGED appVars
    /\ UNCHANGED loopVars

NextCodec ==
    \/ CodecSerialize
    \/ CodecParse

SpecCodec == InitCodec /\ [][NextCodec]_vars

----------------------------------------------------------------------------
(* The parser on its own: parse_ssh_config on texts made of lines drawn     *)
(* from a fixed set.                                                        *)

\* most lines in a text given to the parser
MaxLines == 3

KwProxyJump == <<"P", "r", "o", "x", "y", "J", "u", "m", "p">>

\* the lines: host declarations (plain, indented), every field keyword, a
\* second value for one field, a directive the parser does not know, a blank
\* line and the host keyword with no name
ParseLinesSet ==
    {KwHostSpace \o <<"a">>,
     <<" ", " ">> \o KwHostSpace \o <<"b">>,
     Indent \o KwHostName \o <<" ", "h">>,
     Indent \o KwUser \o <<" ", "u">>,
     KwUser \o <<" ", "v", " ">>,
     Indent \o KwPort \o <<" ", "2">>,
     Indent \o KwIdentityFile \o <<" ", "k">>,
     Indent \o KwPassword \o <<" ", "p">>,
     Indent \o KwHashPassword \o <<" ", "w">>,
     Indent \o KwProxyJump \o <<" ", "j">>,
     <<>>,
     KwHost}

RECURSIVE JoinLines(_)
JoinLines(ls) ==
    IF ls = <<>> THEN <<>> ELSE Head(ls) \o <<"\n">> \o JoinLines(Tail(ls))

\* the texts: up to MaxLines lines, the last one with or without its "\n"
ParseTexts ==
    LET seqs == UNION {[1..n -> ParseLinesSet] : n \in 0..MaxLines} IN
    {JoinLines(ls) : ls \in seqs}
    \cup {SubSeq(JoinLines(ls), 1, Len(JoinLines(ls)) - 1) : ls \in seqs \ {<<>>}}

InitParse ==
    /\ file = None
    /\ hosts = <<>>
    /\ selected = 0
    /\ last_key = None
    /\ last_key_time = None
    /\ edit_mode = None
    /\ status_message = None
    /\ run = "running"
    /\ now = 0
    /\ key_code = None
    /\ spawned = <<>>
    /\ writes = <<>>
    /\ target = "none"
    /\ typed = <<>>
    /\ codec_pc = "serialized"
    /\ codec_in = <<>>
    /\ codec_text \in ParseTexts
    /\ codec_out = <<>>

NextParse == CodecParse

SpecParse == InitParse /\ [][NextParse]_vars

----------------------------------------------------------------------------
(* Steps of the key loop, as seen from outside *)

\* the step handles key k: a new event with key k that `allow` admits
Handled(k) ==
    /\ run = "running"
    /\ now' # now
    /\ key_code' = Some(k)
    /\ Allow(k, now')

\* the Enter arm of edit mode runs
CommitStep == edit_mode # None /\ Handled(Key("Enter"))

\* the Esc arm of edit mode runs
CancelStep == edit_mode # None /\ Handled(Key("Esc"))

\* the 'k' arm outside edit mode runs
FixStep == edit_mode = None /\ Handled(CharKey("k"))

----------------------------------------------------------------------------
(* Claims *)

\* C1: a commit of an edit opened by new-entry appends the edit buffer: the
\* store grows by exactly one, every profile stored before keeps its index,
\* the last profile is the buffer and selected_index is its index.
C1_NewEntryCommitAppends ==
    [][(CommitStep /\ target = "new") =>
          /\ Len(hosts') = Len(hosts) + 1
          /\ \A i \in 1..Len(hosts) : hosts'[i] = hosts[i]
          /\ hosts'[Len(hosts')] = edit_mode[1].host
          /\ selected' = Len(hosts') - 1]_vars

\* C2: in edit mode only commit changes the store or the file: every other
\* key (character, backspace, next field, previous field, cancel, a dropped
\* key) leaves both as they were, cancel returns to Browsing, and no step
\* of the session other than a commit changes them.
C2_EditIsolation ==
    [][/\ (edit_mode # None /\ ~CommitStep) => (hosts' = hosts /\ file' = file)
       /\ CancelStep => (edit_mode' = None /\ run' = "running")
       /\ (hosts' # hosts \/ file' # file) => CommitStep]_vars

\* C2 witness: an edit of a stored profile whose buffer no longer equals the
\* stored profile, with the store still what the file holds.
C2_Witness ==
    /\ edit_mode # None
    /\ target = "existing"
    /\ selected < Len(hosts)
    /\ edit_mode[1].host # hosts[selected + 1]
    /\ hosts = load_config_file(file)

\* C3: whenever the store is non-empty, selected is a valid index into it.
C3_SelectedValid == hosts # <<>> => selected \in 0..(Len(hosts) - 1)

\* C3 witness: the selection sits on the last profile of a store of several.
C3_Witness == Len(hosts) >= 2 /\ selected = Len(hosts) - 1

\* C4: when a key has been admitted and the next event is the same key, it
\* is dropped and nothing of the application state changes if it arrives
\* less than the window after the first, and it is handled (a second
\* transition) if it arrives more than the window after the first.
C4_Debounce ==
    [][(/\ run = "running"
        /\ now' # now
        /\ last_key # None
        /\ last_key_time = Some(now)
        /\ key_code' = last_key) =>
          /\ (now' - now < DebounceMs) => UNCHANGED appVars
          /\ (now' - now > DebounceMs) =>
                (last_key_time' = Some(now') \/ run' # "running")]_vars

\* C4 witness: the last event read repeated the last admitted key inside the
\* window and was dropped: the edit buffer holds the character once.
C4_Witness ==
    /\ edit_mode # None
    /\ key_code = Some(CharKey("d"))
    /\ last_key = key_code
    /\ last_key_time # None
    /\ last_key_time[1] < now
    /\ now - last_key_time[1] < DebounceMs
    /\ edit_mode[1].host.name = NewHostName \o <<"d">>

\* a name or value that the text format carries unchanged: not empty, no
\* line feed inside, no whitespace at either end
Clean(val) ==
    /\ val # <<>>
    /\ ~IsWhitespace(val[1])
    /\ ~IsWhitespace(val[Len(val)])
    /\ \A i \in 1..Len(val) : val[i] # "\n"

\* every name and every set value of the list satisfies P
AllValues(hs, P(_)) ==
    \A i \in 1..Len(hs) :
        /\ P(hs[i].name)
        /\ \A f \in OptionalFields : hs[i][f] # None => P(hs[i][f][1])

NonEmpty(val) == val # <<>>

\* C5 as stated: for host lists whose name and set values are non-empty
\* strings, parsing the serialized text gives the same list back.
C5_RoundTripNonEmpty ==
    (codec_pc = "parsed" /\ AllValues(codec_in, NonEmpty)) => codec_out = codec_in

\* C5 amended: for host lists whose name and set values are non-empty, have
\* no whitespace at either end and contain no line feed, parsing the
\* serialized text gives the same list back: same length, same order, same
\* value for every set field, every absent field absent.
C5_RoundTripClean ==
    (codec_pc = "parsed" /\ AllValues(codec_in, Clean)) => codec_out = codec_in

\* C5 witness: a clean list of three hosts went through the codec, the
\* middle one with a field set and the first with none.
C5_Witness ==
    /\ codec_pc = "parsed"
    /\ AllValues(codec_in, Clean)
    /\ Len(codec_in) = 3
    /\ codec_in[1].hostname = None
    /\ codec_in[2].password # None
    /\ codec_in[2].hostname = None

\* C6: every profile of the store has a non-empty name.
C6_NamesNonEmpty == \A i \in 1..Len(hosts) : hosts[i].name # <<>>

\* C7: when an edit session ends (cancel or commit) the resulting Browsing
\* state has no status_message.
C7_StatusClearedByEdit ==
    [][(edit_mode # None /\ edit_mode' = None) => status_message' = None]_vars

\* C8: a commit whose file write fails still ends in Browsing with the
\* buffer stored (in place of the selected profile, or appended), the
\* session still running and status_message as it was.
C8_FailedPersistSwallowed ==
    [][(CommitStep /\ writes' # <<>> /\ ~writes'[1].ok) =>
          /\ edit_mode' = None
          /\ run' = "running"
          /\ status_message' = status_message
          /\ \/ /\ selected < Len(hosts)
                /\ hosts' = [hosts EXCEPT ![selected + 1] = edit_mode[1].host]
             \/ hosts' = Append(hosts, edit_mode[1].host)]_vars

\* C8 witness: Browsing right after a commit whose write failed, the store
\* no longer what the file holds.
C8_Witness ==
    /\ edit_mode = None
    /\ run = "running"
    /\ writes # <<>>
    /\ ~writes[1].ok
    /\ key_code = Some(Key("Enter"))
    /\ hosts # load_config_file(file)

\* the captured output of the first n commands of the log
CapturedOf(log, n) == [i \in 1..n |-> Captured(log[i].args, log[i].outcome)]

AllSucceeded(log) == \A i \in 1..Len(log) : log[i].outcome = "success"

\* C9: the icacls commands run are the first n of the fixed list, in order,
\* all on the identity file of the selected profile; every command before
\* the last one run succeeded (nothing runs after a command that did not);
\* when the last one run exited with a failure status the message is a
\* failure carrying the output of all n; when all succeeded all six ran and
\* the message is a success carrying the output of all six.
C9_FixerSequence ==
    (spawned # <<>> /\ spawned[1].prog = "icacls") =>
        LET n == Len(spawned) IN
        /\ status_message # None
        /\ n <= Len(Cmds)
        /\ selected < Len(hosts)
        /\ hosts[selected + 1].identity_file # None
        /\ \A i \in 1..n :
              /\ spawned[i].prog = "icacls"
              /\ spawned[i].args = Cmds[i]
              /\ spawned[i].arg = hosts[selected + 1].identity_file[1]
        /\ \A i \in 1..(n - 1) : spawned[i].outcome = "success"
        /\ spawned[n].outcome = "failure" =>
              /\ ~status_message[1].ok
              /\ status_message[1].full_output = CapturedOf(spawned, n)
        /\ AllSucceeded(spawned) =>
              /\ n = Len(Cmds)
              /\ status_message[1].ok
              /\ status_message[1].full_output = CapturedOf(spawned, n)

\* C9 witness: the third command exited with a failure status and is the
\* last one run.
C9_Witness ==
    /\ Len(spawned) = 3
    /\ spawned[3].prog = "icacls"
    /\ spawned[3].outcome = "failure"
    /\ status_message # None
    /\ Len(status_message[1].full_output) = 3

\* C10: the 'k' key outside edit mode leaves the session running in
\* Browsing with store, selection and file unchanged; with an identity file
\* on the selected profile status_message becomes the result (success
\* exactly when every command succeeded, with the output of the commands
\* that ran); otherwise no command is run and status_message is unchanged.
C10_FixNeverAborts ==
    [][FixStep =>
          /\ run' = "running"
          /\ edit_mode' = None
          /\ hosts' = hosts
          /\ selected' = selected
          /\ file' = file
          /\ IF selected < Len(hosts) /\ hosts[selected + 1].identity_file # None
             THEN /\ spawned' # <<>>
                  /\ status_message' # None
                  /\ status_message'[1].ok = AllSucceeded(spawned')
                  /\ \/ status_message'[1].full_output
                           = CapturedOf(spawned', Len(spawned'))
                     \/ /\ spawned'[Len(spawned')].outcome = "error"
                        /\ status_message'[1].full_output
                              = CapturedOf(spawned', Len(spawned') - 1)
             ELSE /\ spawned' = <<>>
                  /\ status_message' = status_message]_vars

\* C10 witness: icacls could not be started for the second command; the
\* session is still running in Browsing with a failure message.
C10_Witness ==
    /\ run = "running"
    /\ edit_mode = None
    /\ Len(spawned) = 2
    /\ spawned[2].prog = "icacls"
    /\ spawned[2].outcome = "error"
    /\ status_message # None
    /\ ~status_message[1].ok

\* C11: outside edit mode Down moves the selection from the last index to
\* 0 and otherwise one up, Up moves it from 0 to the last index and
\* otherwise one down; on an empty store neither changes it; neither
\* changes the store or the mode.
C11_SelectionWraps ==
    [][/\ (edit_mode = None /\ Handled(Key("Down"))) =>
             /\ hosts' = hosts /\ edit_mode' = None /\ run' = "running"
             /\ selected' = IF hosts = <<>> THEN selected
                            ELSE IF selected = Len(hosts) - 1 THEN 0
                            ELSE selected + 1
       /\ (edit_mode = None /\ Handled(Key("Up"))) =>
             /\ hosts' = hosts /\ edit_mode' = None /\ run' = "running"
             /\ selected' = IF hosts = <<>> THEN selected
                            ELSE IF selected = 0 THEN Len(hosts) - 1
                            ELSE selected - 1]_vars

\* C11 witness: Up was handled outside edit mode and left the selection on
\* the last of two profiles, which it reaches only from index 0.
C11_Witness ==
    /\ edit_mode = None
    /\ key_code = Some(Key("Up"))
    /\ last_key_time = Some(now)
    /\ Len(hosts) = 2
    /\ selected = 1

\* a host-declaration line: its trimmed content starts with "Host "
IsDeclaration(line) == StartsWith(Trim(line), KwHostSpace)

\* the positions of the host declarations among the lines
Declarations(ls) == {i \in 1..Len(ls) : IsDeclaration(ls[i])}

\* the lines of the host declared at line i: those after i and before the
\* next declaration
Segment(ls, i) ==
    {t \in (i + 1)..Len(ls) : \A m \in (i + 1)..t : ~IsDeclaration(ls[m])}

\* the keywords that set a field
FieldKeywords(f) ==
    CASE f = "hostname" -> {KwHostName}
      [] f = "user" -> {KwUser}
      [] f = "port" -> {KwPort}
      [] f = "identity_file" -> {KwIdentityFile}
      [] f = "password" -> {KwPassword, KwHashPassword}

Max(S) == CHOOSE x \in S : \A y \in S : y <= x

\* what the lines of a segment give for field f: the value of the last
\* line that starts with a keyword of f, absent when there is none
ExpectedField(ls, seg, f) ==
    LET hits == {t \in seg : \E kw \in FieldKeywords(f) : StartsWith(Trim(ls[t]), kw)}
    IN  IF hits = {} THEN None
        ELSE LET l  == Trim(ls[Max(hits)])
                 kw == CHOOSE w \in FieldKeywords(f) : StartsWith(l, w)
             IN  Some(Trim(SubSeq(l, Len(kw) + 1, Len(l))))

\* C12: parse gives one host per host-declaration line, in the order of
\* the lines (none when there is no declaration, the last one also when the
\* text ends inside it); its name is what follows the keyword, and each
\* optional field holds what the field lines between its declaration and
\* the next one give, absent when there is none; all other lines are ignored.
C12_OneHostPerDeclaration ==
    codec_pc = "parsed" =>
        LET ls    == Lines(codec_text)
            decls == Declarations(ls)
        IN  /\ Len(codec_out) = Cardinality(decls)
            /\ \A i \in decls :
                  LET j == Cardinality({d \in decls : d <= i})
                      l == Trim(ls[i])
                  IN  /\ codec_out[j].name = Trim(SubSeq(l, Len(KwHost) + 1, Len(l)))
                      /\ \A f \in OptionalFields :
                            codec_out[j][f] = ExpectedField(ls, Segment(ls, i), f)

\* C12 witness: a text of a field line, a declaration with a field, and a
\* second declaration at the end of the text was parsed into two hosts, the
\* second with no field set.
C12_Witness ==
    /\ codec_pc = "parsed"
    /\ Len(Lines(codec_text)) = 3
    /\ ~IsDeclaration(Lines(codec_text)[1])
    /\ IsDeclaration(Lines(codec_text)[2])
    /\ IsDeclaration(Lines(codec_text)[3])
    /\ Len(codec_out) = 2
    /\ codec_out[2] = BareHost(<<"b">>)

\* C13: a commit makes exactly one write, of the serialization of the whole
\* store as it is after the replace or append, and a write that succeeds
\* leaves the file holding exactly that text; a step that is not a commit
\* makes no write and leaves the file as it is.
C13_CommitPersistsOnce ==
    [][/\ CommitStep =>
             /\ Len(writes') = 1
             /\ writes'[1].text = write_ssh_config_out(hosts')
             /\ hosts'[selected' + 1] = edit_mode[1].host
             /\ writes'[1].ok => file' = Some(writes'[1].text)
       /\ ~CommitStep =>
             /\ file' = file
             /\ (writes' = <<>> \/ UNCHANGED appVars)]_vars

\* C13 witness: Browsing after a commit on a store of two profiles whose
\* write succeeded: the file holds both profiles, the edited one included.
C13_Witness ==
    /\ edit_mode = None
    /\ key_code = Some(Key("Enter"))
    /\ writes # <<>>
    /\ writes[1].ok
    /\ Len(hosts) = 2
    /\ hosts[2].name = <<"b", "d">>
    /\ file = Some(write_ssh_config_out(hosts))
    /\ load_config_file(file) = hosts

\* C14: no two profiles of the store have the same name.
C14_NamesUnique ==
    \A i, j \in 1..Len(hosts) : i # j => hosts[i].name # hosts[j].name

\* the ProxyJump lines of a text, trimmed
ProxyJumpLines(text) ==
    LET ls == Lines(text) IN
    {Trim(ls[i]) : i \in {t \in 1..Len(ls) : StartsWith(Trim(ls[t]), KwProxyJump)}}

\* C15: a proxy_jump value set on a host in the file survives load, commit
\* and save: when the store is what was loaded from the file and an edit
\* of a stored profile is committed and written, every ProxyJump line of
\* the file is in the file again.
C15_ProxyJumpSurvives ==
    [][(/\ CommitStep
        /\ target = "existing"
        /\ file # None
        /\ hosts = load_config_file(file)
        /\ writes' # <<>>
        /\ writes'[1].ok) =>
          ProxyJumpLines(file[1]) \subseteq ProxyJumpLines(file'[1])]_vars

\* C16: Enter outside edit mode on a non-empty store runs ssh with the name
\* of the selected profile and nothing else, ends the session whatever the
\* outcome, and leaves store and file unchanged; a session that has ended
\* takes no further step.
C16_LaunchIsTerminal ==
    [][/\ (edit_mode = None /\ hosts # <<>> /\ Handled(Key("Enter"))) =>
             /\ selected < Len(hosts)
             /\ Len(spawned') = 1
             /\ spawned'[1].prog = "ssh"
             /\ spawned'[1].arg = hosts[selected + 1].name
             /\ spawned'[1].args = <<>>
             /\ run' # "running"
             /\ hosts' = hosts
             /\ file' = file
       /\ run # "running" => UNCHANGED vars]_vars

\* C16 witness: ssh was run for the second profile and exited with a
\* failure status; the session has ended.
C16_Witness ==
    /\ run = "launched"
    /\ selected = 1
    /\ Len(spawned) = 1
    /\ spawned[1].prog = "ssh"
    /\ spawned[1].arg = <<"b">>
    /\ spawned[1].outcome = "failure"

\* the event read in this step repeats the last admitted key less than the
\* window after that key was admitted
RepeatInWindow ==
    /\ last_key # None
    /\ last_key_time # None
    /\ key_code' = last_key
    /\ now' - last_key_time[1] < DebounceMs

\* C17: a key event is dropped (nothing of the application state changes)
\* exactly when it repeats the last admitted key less than the window after
\* that key's admission; every other event is handled and, unless it ends
\* the session, becomes the new last_key with its own time; last_key and
\* last_key_time change only that way.
C17_AdmissionRule ==
    [][(run = "running" /\ now' # now) =>
          /\ RepeatInWindow => UNCHANGED appVars
          /\ ~RepeatInWindow =>
                \/ last_key' = key_code' /\ last_key_time' = Some(now')
                \/ run' # "running"
          /\ (last_key' # last_key \/ last_key_time' # last_key_time) =>
                /\ ~RepeatInWindow
                /\ last_key' = key_code'
                /\ last_key_time' = Some(now')]_vars

\* C17 witness: Down was admitted at 25 ms and moved the selection; the
\* Down read at 50 ms was dropped: the selection has moved once and the
\* baseline is still 25 ms.
C17_Witness ==
    /\ edit_mode = None
    /\ Len(hosts) = 2
    /\ key_code = Some(Key("Down"))
    /\ last_key = key_code
    /\ now = 50
    /\ last_key_time = Some(25)
    /\ selected = 1

\* C18: a commit of an edit opened by edit-current replaces the profile at
\* the selected index by the buffer: same length, every other profile
\* unchanged, selected unchanged, back in Browsing.
C18_CommitReplacesInPlace ==
    [][(CommitStep /\ target = "existing") =>
          /\ selected < Len(hosts)
          /\ Len(hosts') = Len(hosts)
          /\ hosts'[selected + 1] = edit_mode[1].host
          /\ \A i \in 1..Len(hosts) : i # selected + 1 => hosts'[i] = hosts[i]
          /\ selected' = selected
          /\ edit_mode' = None
          /\ run' = "running"]_vars

\* C18 witness: the second of two profiles was edited and committed; the
\* first is as loaded, the second has the typed character and its other fields.
C18_Witness ==
    /\ edit_mode = None
    /\ key_code = Some(Key("Enter"))
    /\ writes # <<>>
    /\ selected = 1
    /\ Len(hosts) = 2
    /\ hosts[1] = HostEntry(<<"a">>, Some(<<"h">>), None, None, None, None)
    /\ hosts[2] = HostEntry(<<"b", "d">>, None, None, None, Some(<<"k">>), None)

\* the keys d, b, 1
Db1Keys == <<CharKey("d"), CharKey("b"), CharKey("1")>>

\* C19 as stated: when the keys applied to the name field of a new entry
\* are d, b, 1, commit stores a profile named "db1".
C19_StoresDb1 ==
    [][(CommitStep /\ target = "new" /\ typed = Db1Keys) =>
          hosts'[selected' + 1].name = <<"d", "b", "1">>]_vars

\* C19 amended: when the keys applied to the name field of a new entry are
\* d, b, 1, commit stores a profile whose name is the default name
\* "new-host" followed by "db1".
C19_StoresNewHostDb1 ==
    [][(CommitStep /\ target = "new" /\ typed = Db1Keys) =>
          hosts'[selected' + 1].name = NewHostName \o <<"d", "b", "1">>]_vars

\* C19 witness: Browsing after the commit of a new entry; the selected
\* profile is named "new-hostdb1".
C19_Witness ==
    /\ edit_mode = None
    /\ key_code = Some(Key("Enter"))
    /\ writes # <<>>
    /\ selected < Len(hosts)
    /\ hosts[selected + 1] = BareHost(NewHostName \o <<"d", "b", "1">>)

\* the text of field idx of a buffer, "" for an absent field
FieldText(host, idx) ==
    IF idx = 0 THEN host.name
    ELSE IF host[FieldOf(idx)] = None THEN <<>>
    ELSE host[FieldOf(idx)][1]

\* C20: in edit mode no key event ends the session or starts a command;
\* the characters q, e, n and k, when handled, are appended to the focused
\* field and change nothing else; edit mode is left only by a handled Esc
\* or Enter, into Browsing with the session running.
C20_EditModeCapturesKeys ==
    [][(run = "running" /\ now' # now /\ edit_mode # None) =>
          /\ run' = "running"
          /\ spawned' = <<>>
          /\ \A c \in {"q", "e", "n", "k"} :
                Handled(CharKey(c)) =>
                   /\ edit_mode' # None
                   /\ hosts' = hosts
                   /\ selected' = selected
                   /\ LET idx == edit_mode[1].field_index IN
                      /\ edit_mode'[1].field_index = idx
                      /\ FieldText(edit_mode'[1].host, idx)
                            = Append(FieldText(edit_mode[1].host, idx), c)
                      /\ \A i \in 0..(FieldCount - 1) :
                            i # idx => FieldText(edit_mode'[1].host, i)
                                          = FieldText(edit_mode[1].host, i)
          /\ edit_mode' = None => (CancelStep \/ CommitStep)]_vars

\* C20 witness: still in edit mode after q, e, n and k were typed into the
\* name of a new entry.
C20_Witness ==
    /\ run = "running"
    /\ edit_mode # None
    /\ target = "new"
    /\ typed = <<CharKey("q"), CharKey("e"), CharKey("n"), CharKey("k")>>
    /\ edit_mode[1].host.name = NewHostName \o <<"q", "e", "n", "k">>

\* C21: with an empty store and outside edit mode, a handled key other than
\* 'n' and 'q' changes nothing of the session: the store stays empty, the
\* selection, the status message and the file are unchanged, the session
\* stays in Browsing and running, and no external command is started and
\* nothing is written (this covers 'e', Enter and 'k'); 'n' opens the editor
\* on a new entry and 'q' ends the loop, and both leave the store empty.
C21_EmptyStoreInert ==
    [][\A k \in Keys :
          (hosts = <<>> /\ edit_mode = None /\ Handled(k)) =>
             /\ hosts' = <<>>
             /\ selected' = selected
             /\ status_message' = status_message
             /\ file' = file
             /\ spawned' = <<>>
             /\ writes' = <<>>
             /\ IF k = CharKey("n")
                THEN edit_mode' # None /\ target' = "new" /\ run' = "running"
                ELSE IF k = CharKey("q")
                     THEN edit_mode' = None /\ run' = "quit"
                     ELSE edit_mode' = None /\ run' = "running"]_vars

\* C21 witness: 'k' was just handled in Browsing on an empty store, and the
\* session is still in Browsing and running with nothing started.
C21_Witness ==
    /\ hosts = <<>>
    /\ edit_mode = None
    /\ run = "running"
    /\ key_code = Some(CharKey("k"))
    /\ last_key = Some(CharKey("k"))
    /\ last_key_time = Some(now)
    /\ spawned = <<>>
    /\ status_message = None

====
